---------------------------- MODULE Spec2Model ----------------------------
(***************************************************************************)
(* A model of QuPDE: the search for a quadratization of a PDE system.      *)
(*                                                                         *)
(* A monomial of the polynomial ring is its exponent vector (a sequence of *)
(* naturals, one entry per ring variable, in the order of poly_vars); a    *)
(* polynomial is a function from its monomials to their non-zero integer   *)
(* coefficients.  The ring variables of a PDESys are laid out as the code  *)
(* lays them out: for every unknown function its derivative chain          *)
(* name, name_x1, ..., name_x(max_order+order), then the chains of the     *)
(* reciprocal variables q_0, q_1, ... of the fraction decomposition.       *)
(***************************************************************************)
EXTENDS Integers, Sequences, FiniteSets, TLC

(***************************************************************************)
(* Polynomial ring adapter (sympy's PolyElement, as the code uses it)      *)
(***************************************************************************)
RECURSIVE SeqSum(_)
SeqSum(s) == IF Len(s) = 0 THEN 0 ELSE Head(s) + SeqSum(Tail(s))

\* total degree of a monomial: sum(m)
MDeg(m) == SeqSum(m)

MOne(n) == [i \in 1..n |-> 0]

MMul(a, b) == [i \in 1..Len(a) |-> a[i] + b[i]]

\* the generator x_i of a ring with n variables, as a monomial
MGen(n, i) == [k \in 1..n |-> IF k = i THEN 1 ELSE 0]

PZero == [m \in {} |-> 0]

Coef(p, m) == IF m \in DOMAIN p THEN p[m] ELSE 0

\* ring({m: c})
PTerm(m, c) == IF c = 0 THEN PZero ELSE [x \in {m} |-> c]

PAdd(p, q) ==
    LET D == {m \in (DOMAIN p) \cup (DOMAIN q) : Coef(p, m) + Coef(q, m) # 0}
    IN  [m \in D |-> Coef(p, m) + Coef(q, m)]

PScale(c, p) == IF c = 0 THEN PZero ELSE [m \in DOMAIN p |-> c * p[m]]

\* p * (c * m)
PMulTerm(p, m, c) ==
    IF c = 0 THEN PZero
    ELSE LET D == {MMul(x, m) : x \in DOMAIN p}
         IN  [y \in D |-> c * p[CHOOSE x \in DOMAIN p : MMul(x, m) = y]]

RECURSIVE PMulRec(_, _, _)
PMulRec(p, q, todo) ==
    IF todo = {} THEN PZero
    ELSE LET m == CHOOSE x \in todo : TRUE
         IN  PAdd(PMulTerm(p, m, q[m]), PMulRec(p, q, todo \ {m}))

PMul(p, q) == PMulRec(p, q, DOMAIN q)

\* lexicographic order on exponent vectors
RECURSIVE LexLess(_, _)
LexLess(a, b) ==
    IF Len(a) = 0 THEN FALSE
    ELSE IF Head(a) # Head(b) THEN Head(a) < Head(b)
    ELSE LexLess(Tail(a), Tail(b))

\* the monomials of a polynomial in the ring's term order (lex, largest first)
RECURSIVE SortMonoms(_)
SortMonoms(S) ==
    IF S = {} THEN << >>
    ELSE LET top == CHOOSE m \in S : \A x \in S \ {m} : LexLess(x, m)
         IN  <<top>> \o SortMonoms(S \ {top})

itermonoms(p) == SortMonoms(DOMAIN p)


RECURSIVE PSum(_)
PSum(ps) == IF Len(ps) = 0 THEN PZero ELSE PAdd(Head(ps), PSum(Tail(ps)))

(***************************************************************************)
(* The equation systems the model quadratizes.  A system is given by its   *)
(* unknown functions, and by what sp.cancel and the fraction decomposition *)
(* make of its right-hand sides: the equations with every 1/denominator    *)
(* replaced by a reciprocal variable q_i, and the denominators.  A term is *)
(* [c, f]: a coefficient and factors <<generator, derivative order,        *)
(* exponent>>; generators 1..nfun are the unknown functions, generators    *)
(* nfun+1.. the reciprocal variables q_0, q_1, ...                         *)
(***************************************************************************)
T(c, f) == [c |-> c, f |-> f]

Systems ==
    [ ux    |-> \* u_t = u_x
        [funs |-> <<"u">>,
         pde  |-> << {T(1, {<<1, 1, 1>>})} >>,
         rels |-> << >>],
      uxx   |-> \* u_t = u_xx
        [funs |-> <<"u">>,
         pde  |-> << {T(1, {<<1, 2, 1>>})} >>,
         rels |-> << >>],
      u3    |-> \* u_t = u^3
        [funs |-> <<"u">>,
         pde  |-> << {T(1, {<<1, 0, 3>>})} >>,
         rels |-> << >>],
      u2ux  |-> \* u_t = u^2 * u_x
        [funs |-> <<"u">>,
         pde  |-> << {T(1, {<<1, 0, 2>>, <<1, 1, 1>>})} >>,
         rels |-> << >>],
      ux3   |-> \* u_t = u_x^3
        [funs |-> <<"u">>,
         pde  |-> << {T(1, {<<1, 1, 3>>})} >>,
         rels |-> << >>],
      u3v4  |-> \* u_t = u^3, v_t = v^4
        [funs |-> <<"u", "v">>,
         pde  |-> << {T(1, {<<1, 0, 3>>})}, {T(1, {<<2, 0, 4>>})} >>,
         rels |-> << >>],
      q2    |-> \* q_t = q^2, the unknown function is named q
        [funs |-> <<"q">>,
         pde  |-> << {T(1, {<<1, 0, 2>>})} >>,
         rels |-> << >>],
      inv5  |-> \* u_t = 1/(5*(u + 1))
        [funs |-> <<"u">>,
         pde  |-> << {T(1, {<<2, 0, 1>>})} >>,
         rels |-> << {T(5, {<<1, 0, 1>>}), T(5, {})} >>],
      inv12 |-> \* u_t = 1/((u + 1)*(u + 2))
        [funs |-> <<"u">>,
         pde  |-> << {T(1, {<<2, 0, 1>>})} >>,
         rels |-> << {T(1, {<<1, 0, 2>>}), T(3, {<<1, 0, 1>>}), T(2, {})} >>],
      uv    |-> \* u_t = 1/((v + 1)*(u + 1)), v_t = 1/u
        [funs |-> <<"u", "v">>,
         pde  |-> << {T(1, {<<3, 0, 1>>})}, {T(1, {<<4, 0, 1>>})} >>,
         rels |-> << {T(1, {<<1, 0, 1>>, <<2, 0, 1>>}), T(1, {<<1, 0, 1>>}),
                      T(1, {<<2, 0, 1>>}), T(1, {})},
                     {T(1, {<<1, 0, 1>>})} >>] ]

SysNames == DOMAIN Systems

Max(S) == CHOOSE x \in S : \A y \in S : y <= x

\* utils.get_order: the highest spatial-derivative order in the equations
get_order(sys) ==
    LET S == Systems[sys]
        orders == {0} \cup
                  {t[2] : t \in UNION {tm.f : tm \in UNION {S.pde[i] : i \in DOMAIN S.pde}}}
                  \cup
                  {t[2] : t \in UNION {tm.f : tm \in UNION {S.rels[i] : i \in DOMAIN S.rels}}}
    IN  Max(orders)

(***************************************************************************)
(* PDESys.build_ring                                                       *)
(***************************************************************************)
\* index in poly_vars (1-based) of the k-th chain symbol of generator g,
\* for chains of length der_order + 1
Pos(der_order, g, k) == (der_order + 1) * (g - 1) + k + 1

\* the derivative order a ring variable's name carries: name_x<k>
VarOrd(der_order, pos) == (pos - 1) % (der_order + 1)

\* the generator (function or reciprocal variable) a ring variable belongs to
VarGen(der_order, pos) == ((pos - 1) \div (der_order + 1)) + 1

RingSize(sys, der_order) ==
    (der_order + 1) * (Len(Systems[sys].funs) + Len(Systems[sys].rels))

TermToPoly(tm, der_order, n) ==
    PTerm([i \in 1..n |->
              IF \E t \in tm.f : Pos(der_order, t[1], t[2]) = i
              THEN (CHOOSE t \in tm.f : Pos(der_order, t[1], t[2]) = i)[3]
              ELSE 0],
          tm.c)

RECURSIVE TermsToPoly(_, _, _)
TermsToPoly(tms, der_order, n) ==
    IF tms = {} THEN PZero
    ELSE LET tm == CHOOSE x \in tms : TRUE
         IN  PAdd(TermToPoly(tm, der_order, n), TermsToPoly(tms \ {tm}, der_order, n))

\* the ring element R(var) of a variable of poly_vars
Gen(n, pos) == PTerm(MGen(n, pos), 1)

(***************************************************************************)
(* utils.diff_dict and FractionDecomp.diff_frac                            *)
(***************************************************************************)
MDec(m, i) == [m EXCEPT ![i] = @ - 1]

RECURSIVE DiffSum(_, _, _)
DiffSum(p, dic, todo) ==
    IF todo = {} THEN PZero
    ELSE LET t == CHOOSE x \in todo : TRUE
             m == t[1]
             i == t[2]
         IN  PAdd(PMulTerm(dic[i], MDec(m, i), p[m] * m[i]),
                  DiffSum(p, dic, todo \ {t}))

\* the variant that leaves out the exponent of the differentiated variable
DiffOnce_without_exponent(p, dic) ==
    PSum([k \in 1..Len(itermonoms(p)) |->
            PSum([i \in 1..Len(itermonoms(p)[k]) |->
                    IF i \in DOMAIN dic /\ itermonoms(p)[k][i] > 0
                    THEN PMulTerm(dic[i], MDec(itermonoms(p)[k], i), p[itermonoms(p)[k]])
                    ELSE PZero])])

\* one application of the product rule; a variable that is no key of dic
\* differentiates to 0
DiffOnce(p, dic) ==
    DiffSum(p, dic, {t \in (DOMAIN p) \X (DOMAIN dic) : t[1][t[2]] > 0})

\* the variant that differentiates once whatever the order
diff_dict_ignores_order(pol, dic, order) == DiffOnce(pol, dic)

RECURSIVE diff_dict(_, _, _)
diff_dict(pol, dic, order) ==
    IF order = 0 THEN pol ELSE DiffOnce(diff_dict(pol, dic, order - 1), dic)

\* the n_diff-th derivative of the reciprocal variable rel[1] = 1/rel[2]:
\* d(1/p) = -(1/p)^2 * dp, written with the reciprocal symbol
RECURSIVE diff_frac(_, _, _)
diff_frac(rel, dic, n_diff) ==
    IF n_diff = 1
    THEN LET q == rel[1]
             n == Len(CHOOSE m \in DOMAIN rel[2] : TRUE)
         IN  PMulTerm(DiffOnce(rel[2], dic), MMul(MGen(n, q), MGen(n, q)), -1)
    ELSE DiffOnce(diff_frac(rel, dic, n_diff - 1), dic)

(***************************************************************************)
(* PDESys.__init__, build_ring, get_dics                                   *)
(***************************************************************************)
NFun(sys) == Len(Systems[sys].funs)
NRel(sys) == Len(Systems[sys].rels)

\* pde_pol: the right-hand sides as ring elements
PdeEq(sys, der_order) ==
    [k \in 1..NFun(sys) |->
        TermsToPoly(Systems[sys].pde[k], der_order, RingSize(sys, der_order))]

\* the loop variable `last` of get_dics after the nested loops over the
\* functions and over range(der_order), as a 0-based index into poly_vars
LastIndex(sys, der_order) == (der_order - 1) + (der_order + 1) * (NFun(sys) - 1)

\* get_dics reads `last` after loops that assign it only when they run
GetDicsRaises(sys, der_order) == der_order = 0

\* the variant that pairs every reciprocal variable with the first denominator
FracRels_first_denominator(sys, der_order) ==
    [i \in 1..NRel(sys) |->
        << (LastIndex(sys, der_order) + 2) + (i - 1) * (der_order + 1) + 1,
           TermsToPoly(Systems[sys].rels[1], der_order, RingSize(sys, der_order)) >>]

\* vars_pol["frac_vars"]: (q_i, denominator) with q_i given by its index in
\* poly_vars; count = last + 2 is the 0-based index of q_0's chain
FracRels(sys, der_order) ==
    [i \in 1..NRel(sys) |->
        << (LastIndex(sys, der_order) + 2) + (i - 1) * (der_order + 1) + 1,
           TermsToPoly(Systems[sys].rels[i], der_order, RingSize(sys, der_order)) >>]

ChainKeys(sys, der_order, upto) ==
    {Pos(der_order, g, j) : g \in 1..NFun(sys), j \in 0..upto}

\* dic_x after the first pair of loops: name_xj -> name_x(j+1), j < der_order
DicXChain(sys, der_order) ==
    [pos \in ChainKeys(sys, der_order, der_order - 1) |->
        Gen(RingSize(sys, der_order), pos + 1)]

RECURSIVE DicXRels(_, _, _)
DicXRels(dic, rels, i) ==
    IF i > Len(rels) THEN dic
    ELSE DicXRels((rels[i][1] :> diff_frac(rels[i], dic, 1)) @@ dic, rels, i + 1)

DicX(sys, der_order) ==
    DicXRels(DicXChain(sys, der_order), FracRels(sys, der_order), 1)

RECURSIVE DicTEntry(_, _, _, _)
DicTEntry(sys, der_order, k, i) ==
    IF i = 0 THEN PdeEq(sys, der_order)[k]
    ELSE DiffOnce(DicTEntry(sys, der_order, k, i - 1), DicX(sys, der_order))

\* dic_t after the loops over the functions: entries for i in range(der_order)
DicTChain(sys, der_order) ==
    [pos \in ChainKeys(sys, der_order, der_order - 1) |->
        DicTEntry(sys, der_order, VarGen(der_order, pos), VarOrd(der_order, pos))]

RECURSIVE DicTRels(_, _, _)
DicTRels(dic, rels, i) ==
    IF i > Len(rels) THEN dic
    ELSE DicTRels((rels[i][1] :> diff_frac(rels[i], dic, 1)) @@ dic, rels, i + 1)

DicT(sys, der_order) ==
    DicTRels(DicTChain(sys, der_order), FracRels(sys, der_order), 1)

get_dics(sys, der_order) ==
    LET dt == DicT(sys, der_order)
        rels == FracRels(sys, der_order)
    IN  [dic_t |-> dt,
         dic_x |-> DicX(sys, der_order),
         frac_der_t |-> [i \in 1..Len(rels) |-> << <<"q", i - 1, "t">>, dt[rels[i][1]] >>]]

\* PDESys(pde_sys, n_diff, vars_indep, new_vars); defined when get_dics
\* does not raise
PDESys(sys, n_diff, new_vars) ==
    LET der_order == get_order(sys) + n_diff
        dics == get_dics(sys, der_order)
    IN  [sys |-> sys,
         max_order |-> get_order(sys),
         order |-> n_diff,
         nring |-> RingSize(sys, der_order),
         pde_eq |-> [k \in 1..NFun(sys) |->
                        << <<Systems[sys].funs[k], "t">>, PdeEq(sys, der_order)[k] >>],
         frac_vars |-> FracRels(sys, der_order),
         new_vars |-> new_vars,
         NS_list |-> << >>,
         dic_t |-> dics.dic_t,
         dic_x |-> dics.dic_x,
         frac_der_t |-> dics.frac_der_t,
         quad_sys |-> << >>]

(***************************************************************************)
(* PDESys.differentiate_dict                                               *)
(***************************************************************************)
\* utils.get_diff_order: the highest derivative order among the variables
\* that occur in expr
get_diff_order(expr, der_order) ==
    Max({0} \cup {VarOrd(der_order, i) :
                    i \in {k \in 1..(IF DOMAIN expr = {} THEN 0
                                     ELSE Len(CHOOSE m \in DOMAIN expr : TRUE)) :
                             \E m \in DOMAIN expr : m[k] > 0}})

RECURSIVE Flatten(_)
Flatten(ss) == IF Len(ss) = 0 THEN << >> ELSE Head(ss) \o Flatten(Tail(ss))

\* var_ord = self.order - get_diff_order(expr); if var_ord < 0: var_ord = 0
VarOrdOf(S, expr) ==
    LET d == S.order - get_diff_order(expr, S.max_order + S.order)
    IN  IF d < 0 THEN 0 ELSE d

\* deriv_t of differentiate_dict: (w_i t, diff_dict(w_i, dic_t))
NewVarsT(S) ==
    [i \in 1..Len(S.new_vars) |->
        << <<"w", i - 1, "t">>, diff_dict(S.new_vars[i], S.dic_t, 1) >>]

\* deriv_x of differentiate_dict: the spatial derivatives of the new
\* variables, then those of the reciprocal variables
NewVarsX(S) ==
    Flatten([i \in 1..Len(S.new_vars) |->
                [k \in 1..VarOrdOf(S, S.new_vars[i]) |->
                    << <<"w", i - 1, "x", k>>, diff_dict(S.new_vars[i], S.dic_x, k) >>]])
    \o
    Flatten([i \in 1..Len(S.frac_vars) |->
                [k \in 1..VarOrdOf(S, S.frac_vars[i][2]) |->
                    << <<"q", i - 1, "x", k>>, diff_frac(S.frac_vars[i], S.dic_x, k) >>]])

(***************************************************************************)
(* verify_quad.is_quadratization                                           *)
(***************************************************************************)
IsTerm(p) == Cardinality(DOMAIN p) = 1
TMono(p) == CHOOSE m \in DOMAIN p : TRUE
TCoef(p) == p[TMono(p)]

\* the pairs (i, j), i <= j, of elements of V whose product is the monomial m
Matches(V, m) ==
    {ij \in (1..Len(V)) \X (1..Len(V)) :
        /\ ij[1] <= ij[2]
        /\ IsTerm(V[ij[1]][2]) /\ IsTerm(V[ij[2]][2])
        /\ MMul(TMono(V[ij[1]][2]), TMono(V[ij[2]][2])) = m}

\* the match used for m: the first in the order of V, so that a match with
\* the constant 1 (a single variable of V) is preferred to a product of two
BestMatch(V, m) ==
    CHOOSE ij \in Matches(V, m) :
        \A o \in Matches(V, m) :
            ij[1] < o[1] \/ (ij[1] = o[1] /\ ij[2] <= o[2])

\* the part of p that no product of two elements of V accounts for
Residual(V, p) ==
    [m \in {x \in DOMAIN p : Matches(V, x) = {}} |-> p[m]]

\* p rewritten over V: for every monomial the term (num/den) * V[i] * V[j]
Rewrite(V, p) ==
    LET ms == itermonoms(p)
    IN  [k \in 1..Len(ms) |->
            LET ij == BestMatch(V, ms[k])
            IN  [num |-> p[ms[k]],
                 den |-> TCoef(V[ij[1]][2]) * TCoef(V[ij[2]][2]),
                 i |-> V[ij[1]][1],
                 j |-> V[ij[2]][1]]]

is_quadratization(V, deriv_t) ==
    LET NS == SelectSeq([k \in 1..Len(deriv_t) |->
                            <<deriv_t[k][1], Residual(V, deriv_t[k][2])>>],
                        LAMBDA e : e[2] # PZero)
    IN  IF NS = << >>
        THEN <<TRUE, [k \in 1..Len(deriv_t) |->
                        <<deriv_t[k][1], Rewrite(V, deriv_t[k][2])>>]>>
        ELSE <<FALSE, NS>>

(***************************************************************************)
(* PDESys.try_make_quadratic                                               *)
(***************************************************************************)
FirstCharOf == [u |-> "u", v |-> "v", q |-> "q"]

\* str(x)[0] of the ring variable at index pos of poly_vars
VarFirstChar(S, pos) ==
    LET g == VarGen(S.max_order + S.order, pos)
    IN  IF g <= NFun(S.sys) THEN FirstCharOf[Systems[S.sys].funs[g]] ELSE "q"

\* the variant that lists the original equations first
DerivT_equations_first(S) == S.pde_eq \o NewVarsT(S) \o S.frac_der_t

\* deriv_t = new_vars_t + self.frac_der_t + self.pde_eq
DerivT(S) == NewVarsT(S) \o S.frac_der_t \o S.pde_eq

VSet(S) ==
    << << <<"1">>, PTerm(MOne(S.nring), 1) >> >>
    \o [k \in 1..Len(SelectSeq([i \in 1..S.nring |-> i],
                               LAMBDA i : VarFirstChar(S, i) # "q")) |->
          LET pos == SelectSeq([i \in 1..S.nring |-> i],
                               LAMBDA i : VarFirstChar(S, i) # "q")[k]
          IN  << <<"x", pos>>, Gen(S.nring, pos) >>]
    \o [i \in 1..Len(S.frac_vars) |->
          << <<"q", i - 1>>, Gen(S.nring, S.frac_vars[i][1]) >>]
    \o [i \in 1..Len(S.new_vars) |-> << <<"w", i - 1>>, S.new_vars[i] >>]
    \o NewVarsX(S)

\* the pair the method returns
TryResult(S) == is_quadratization(VSet(S), DerivT(S))

\* the object after the call: NS_list is assigned only on failure
try_make_quadratic(S) ==
    IF TryResult(S)[1] THEN S ELSE [S EXCEPT !.NS_list = TryResult(S)[2]]

\* the variant that replaces the whole dictionary of auxiliary variables
set_new_vars_replaces_dict(S, new_vars) == [S EXCEPT !.new_vars = new_vars, !.frac_vars = << >>]

set_new_vars(S, new_vars) == [S EXCEPT !.new_vars = new_vars]

set_NS_list(S, NS_list) == [S EXCEPT !.NS_list = NS_list]

set_quad_sys(S, quad_sys) == [S EXCEPT !.quad_sys = quad_sys]

(***************************************************************************)
(* check_quadratization(func_eq, new_vars, n_diff)                         *)
(***************************************************************************)
\* the variant that forgets to hand new_vars to the PDESys it builds
check_quadratization_forgets_vars(sys, new_vars, n_diff) ==
    TryResult(PDESys(sys, n_diff, << >>))

check_quadratization(sys, new_vars, n_diff) ==
    TryResult(PDESys(sys, n_diff, new_vars))

(***************************************************************************)
(* The reference the tests compare a quadratic system with                 *)
(* (QuadratizationHelpers): the time derivative of every variable taken    *)
(* with the equations u_t = rhs and (u_xi)_t = d^i(rhs)/dx^i, in a ring    *)
(* whose derivative chains are long enough for every such derivative, and  *)
(* the quadratic equations with the definitions of their variables         *)
(* substituted back.                                                       *)
(***************************************************************************)
\* the chain length that holds d^i(rhs)/dx^i for every i <= der_order
RefOrder(S) == S.max_order + S.order + S.max_order

EmbedMonom(m, sys, der_order, ref_order) ==
    [p \in 1..RingSize(sys, ref_order) |->
        IF VarOrd(ref_order, p) <= der_order
        THEN m[Pos(der_order, VarGen(ref_order, p), VarOrd(ref_order, p))]
        ELSE 0]

\* a polynomial of the ring of S as a polynomial of the reference ring
Embed(p, S) ==
    LET D == S.max_order + S.order
        E(m) == EmbedMonom(m, S.sys, D, RefOrder(S))
    IN  [y \in {E(m) : m \in DOMAIN p} |-> p[CHOOSE m \in DOMAIN p : E(m) = y]]

\* D(name_xi, t) = D(rhs, x, i) for every chain symbol, then the reciprocals
RefDicT(S) ==
    LET R == RefOrder(S)
        chain == [pos \in ChainKeys(S.sys, R, S.max_order + S.order) |->
                     diff_dict(PdeEq(S.sys, R)[VarGen(R, pos)], DicX(S.sys, R),
                               VarOrd(R, pos))]
    IN  DicTRels(chain, FracRels(S.sys, R), 1)

\* differentiate_t: the expressions the quadratic equations must equal, in
\* the order new variables, reciprocal variables, equations
RefDerivT(S) ==
    [i \in 1..Len(S.new_vars) |-> DiffOnce(Embed(S.new_vars[i], S), RefDicT(S))]
    \o [i \in 1..Len(S.frac_vars) |-> RefDicT(S)[FracRels(S.sys, RefOrder(S))[i][1]]]
    \o [k \in 1..NFun(S.sys) |-> PdeEq(S.sys, RefOrder(S))[k]]

VPoly(V, name) == (CHOOSE k \in 1..Len(V) : V[k][1] = name)

PDivExact(p, d) == [m \in DOMAIN p |-> p[m] \div d]

\* rhs.subs(refac_new_vars): every variable of V replaced by its definition
SubstBack(V, terms) ==
    PSum([k \in 1..Len(terms) |->
            PDivExact(PScale(terms[k].num,
                             PMul(V[VPoly(V, terms[k].i)][2], V[VPoly(V, terms[k].j)][2])),
                      terms[k].den)])

(***************************************************************************)
(* utils.get_decompositions, utils.remove_vars, utils.sort_vars and the    *)
(* orderings of mon_heuristics                                             *)
(***************************************************************************)
RECURSIVE SubMonoms(_)
SubMonoms(m) ==
    IF Len(m) = 0 THEN { << >> }
    ELSE {<<e>> \o r : e \in 0..Head(m), r \in SubMonoms(Tail(m))}

MQuot(m, a) == [i \in 1..Len(m) |-> m[i] - a[i]]

\* the factorizations of a monomial into two factors, as pairs (a, b) with
\* a <= b, listed with the most balanced split first
get_decompositions(m) ==
    LET smaller == {a \in SubMonoms(m) : a = MQuot(m, a) \/ LexLess(a, MQuot(m, a))}
        as == SortMonoms(smaller)
    IN  [k \in 1..Len(as) |-> <<as[k], MQuot(m, as[k])>>]

InSeq(x, s) == \E i \in 1..Len(s) : s[i] = x

\* of every pair, the factors that are new variables: not already an
\* auxiliary variable, not a constant or a single ring variable, and not
\* twice the same
remove_vars(list_vars, accum_vars) ==
    [k \in 1..Len(list_vars) |->
        LET keep(x) == ~InSeq(x, accum_vars) /\ MDeg(TMono(x)) > 1
            a == list_vars[k][1]
            b == list_vars[k][2]
        IN  (IF keep(a) THEN <<a>> ELSE << >>)
            \o (IF keep(b) /\ b # a THEN <<b>> ELSE << >>)]

CandDegree(cand) == SeqSum([i \in 1..Len(cand) |-> MDeg(TMono(cand[i]))])

CandOrder(cand, der_order) ==
    Max({0} \cup {get_diff_order(cand[i], der_order) : i \in 1..Len(cand)})

CandFun(cand, der_order) ==
    LET m == TMono(cand[1])
    IN  VarGen(der_order, CHOOSE i \in 1..Len(m) : m[i] > 0 /\ \A j \in 1..(i - 1) : m[j] = 0)

SortFuns == {"by_fun", "by_degree_order", "by_order_degree"}

\* the key a candidate is sorted by
SortKey(sort_fun, cand, der_order) ==
    CASE sort_fun = "by_fun" -> <<CandFun(cand, der_order)>>
      [] sort_fun = "by_degree_order" ->
            <<CandDegree(cand), CandOrder(cand, der_order)>>
      [] sort_fun = "by_order_degree" ->
            <<CandOrder(cand, der_order), CandDegree(cand)>>

RECURSIVE Insert(_, _, _, _)
Insert(sorted, c, sort_fun, der_order) ==
    IF Len(sorted) = 0 THEN <<c>>
    ELSE IF LexLess(SortKey(sort_fun, c, der_order),
                    SortKey(sort_fun, Head(sorted), der_order))
         THEN <<c>> \o sorted
         ELSE <<Head(sorted)>> \o Insert(Tail(sorted), c, sort_fun, der_order)

\* a stable sort of the candidates by their key
RECURSIVE sort_vars(_, _, _)
sort_vars(cands, sort_fun, der_order) ==
    IF Len(cands) = 0 THEN << >>
    ELSE Insert(sort_vars(SubSeq(cands, 1, Len(cands) - 1), sort_fun, der_order),
                cands[Len(cands)], sort_fun, der_order)

(***************************************************************************)
(* PDESys.prop_new_vars                                                    *)
(***************************************************************************)
\* monoms after the loop over NS_list: the list built for its last entry
PropMonoms(S) ==
    SelectSeq(itermonoms(S.NS_list[Len(S.NS_list)][2]), LAMBDA m : MDeg(m) > 2)

\* min(monoms, key=sum): the first monomial of least total degree
MinMonom(S) ==
    LET monoms == PropMonoms(S)
    IN  IF monoms = << >> THEN MOne(S.nring)
        ELSE monoms[CHOOSE k \in 1..Len(monoms) :
                       /\ \A j \in 1..Len(monoms) : MDeg(monoms[k]) <= MDeg(monoms[j])
                       /\ \A j \in 1..(k - 1) : MDeg(monoms[j]) > MDeg(monoms[k])]

\* the variant that hands remove_vars no auxiliary variables
prop_new_vars_keeps_known(S, sort_fun) ==
    LET decs == get_decompositions(MinMonom(S))
        list_vars == [k \in 1..Len(decs) |->
                        <<PTerm(decs[k][1], 1), PTerm(decs[k][2], 1)>>]
        removed == remove_vars(list_vars, << >>)
        new_vars == SelectSeq(removed, LAMBDA c : c # << >>)
    IN  sort_vars(new_vars, sort_fun, S.max_order + S.order)

prop_new_vars(S, sort_fun) ==
    LET decs == get_decompositions(MinMonom(S))
        list_vars == [k \in 1..Len(decs) |->
                        <<PTerm(decs[k][1], 1), PTerm(decs[k][2], 1)>>]
        removed == remove_vars(list_vars, S.new_vars)
        new_vars == SelectSeq(removed, LAMBDA c : c # << >>)
    IN  sort_vars(new_vars, sort_fun, S.max_order + S.order)

(***************************************************************************)
(* The call quadratize(func_eq, diff_ord, sort_fun, nvars_bound,           *)
(* first_indep, max_der_order, search_alg, printing, show_nodes) as a      *)
(* state machine.  An argument that may be of the wrong type is a record   *)
(* [t, v]: t is "int", "none" (None) or "float" (not an integer).          *)
(***************************************************************************)
VARIABLES
    args,       \* the arguments of the call
    pc,         \* the position in quadratize
    poly_syst,  \* the PDESys object, once constructed
    stack,      \* the activation records of bnb, innermost last
    ret,        \* the value the search (or a recursive call of bnb) returned
    nn_vars,    \* new_vars of nearest_neighbor
    nodes,      \* the local variable nodes of quadratize / nearest_neighbor
    result,     \* what the call returned or raised
    started,    \* the search algorithm that has been called, if any
    nverify,    \* the number of calls of try_make_quadratic so far
    inp,        \* the arguments of a function called on its own
    out         \* what that function returned or raised

vars == <<args, pc, poly_syst, stack, ret, nn_vars, nodes, result, started, nverify,
          inp, out>>

MaxNvarsBound == 2
MaxNNVars == 3

IntArg(n) == [t |-> "int", v |-> n]
NoneArg == [t |-> "none", v |-> 0]
FloatArg == [t |-> "float", v |-> 0]

\* the shapes of an element of func_eq: a (function, expression) tuple, a
\* bare expression, a two-element list [function, expression]
Shapes == {"tuple", "expr", "list"}

RECURSIVE SeqsOf(_, _)
SeqsOf(S, n) ==
    IF n = 0 THEN { << >> }
    ELSE {<<x>> \o r : x \in S, r \in SeqsOf(S, n - 1)}

\* the differentiation orders the model takes for each system
DiffOrds(sys) ==
    {IntArg(-1), FloatArg} \cup
    (CASE sys \in {"u3", "inv5"} -> {NoneArg, IntArg(0), IntArg(1)}
       [] sys \in {"u2ux", "ux3"} -> {IntArg(0), IntArg(1)}
       [] sys \in {"inv12", "uv"} -> {NoneArg, IntArg(0)}
       [] sys = "ux" -> {NoneArg, IntArg(1)}
       [] sys = "uxx" -> {IntArg(0)}
       [] sys \in {"u3v4", "q2"} -> {IntArg(1)})

FuncEqs ==
    {[sys |-> "u3", shapes |-> << >>]} \cup
    {[sys |-> s, shapes |-> sh] :
        s \in SysNames, sh \in UNION {SeqsOf(Shapes, NFun(x)) : x \in SysNames}}

ArgSpace ==
    {a \in [func_eq : FuncEqs,
            diff_ord : UNION {DiffOrds(s) : s \in SysNames},
            sort_fun : SortFuns \cup {"by_name"},
            nvars_bound : {IntArg(n) : n \in 0..MaxNvarsBound} \cup {FloatArg},
            max_der_order : {NoneArg, IntArg(-1), IntArg(0), IntArg(1), FloatArg},
            search_alg : {"bnb", "inn", "nn"},
            printing : {"", "pprint", "latex", "text"},
            show_nodes : BOOLEAN] :
        /\ a.func_eq.shapes # << >> => Len(a.func_eq.shapes) = NFun(a.func_eq.sys)
        /\ a.diff_ord \in DiffOrds(a.func_eq.sys)}

NoSys == [sys |-> "none"]
NoRet == [set |-> FALSE, found |-> FALSE, quad |-> << >>, nodes |-> 0]
Running == [kind |-> "running", exc |-> "", with_nodes |-> FALSE, nodes |-> 0]
Raise(exc) == [kind |-> "raise", exc |-> exc, with_nodes |-> FALSE, nodes |-> 0]

NoCall == [call |-> "none"]

Init ==
    /\ args \in ArgSpace
    /\ pc = "check_list"
    /\ poly_syst = NoSys
    /\ stack = << >>
    /\ ret = NoRet
    /\ nn_vars = << >>
    /\ nodes = 0
    /\ result = Running
    /\ started = "none"
    /\ nverify = 0
    /\ inp = NoCall
    /\ out = NoCall

IsNatArg(a) == a.t = "int" /\ a.v >= 0

Fail(exc) ==
    /\ result' = Raise(exc)
    /\ pc' = "done"

\* quadratize, the checks of func_eq and the unpacking of its elements
CheckFuncEq ==
    /\ pc = "check_list"
    /\ LET sh == args.func_eq.shapes
       IN  IF sh = << >> THEN Fail("ValueError")
           ELSE IF sh[1] # "tuple" THEN Fail("ValueError")
           ELSE IF \E i \in 1..Len(sh) : sh[i] = "expr" THEN Fail("TypeError")
           ELSE pc' = "check_diff_ord" /\ UNCHANGED result
    /\ UNCHANGED <<args, poly_syst, stack, ret, nn_vars, nodes, started, nverify, inp, out>>

\* the variant whose default is the order of the system itself
DefaultDiffOrd_sys_order(sys) == get_order(sys)

\* diff_ord = 3 * get_sys_order([expr for _, expr in func_eq])
DefaultDiffOrd(sys) == 3 * get_order(sys)

\* quadratize, diff_ord: the default 3 * get_sys_order, or the check
CheckDiffOrd ==
    /\ pc = "check_diff_ord"
    /\ IF args.diff_ord.t = "none"
       THEN /\ args' = [args EXCEPT !.diff_ord = IntArg(DefaultDiffOrd(args.func_eq.sys))]
            /\ pc' = "construct"
            /\ UNCHANGED result
       ELSE IF ~IsNatArg(args.diff_ord)
       THEN Fail("ValueError") /\ UNCHANGED args
       ELSE pc' = "construct" /\ UNCHANGED <<args, result>>
    /\ UNCHANGED <<poly_syst, stack, ret, nn_vars, nodes, started, nverify, inp, out>>

\* poly_syst = PDESys(func_eq, diff_ord, (first_indep, x_var))
Construct ==
    /\ pc = "construct"
    /\ IF GetDicsRaises(args.func_eq.sys, get_order(args.func_eq.sys) + args.diff_ord.v)
       THEN Fail("UnboundLocalError") /\ UNCHANGED poly_syst
       ELSE /\ poly_syst' = PDESys(args.func_eq.sys, args.diff_ord.v, << >>)
            /\ pc' = "check_options"
            /\ UNCHANGED result
    /\ UNCHANGED <<args, stack, ret, nn_vars, nodes, started, nverify, inp, out>>

\* quadratize, the checks of sort_fun, nvars_bound and max_der_order
CheckOptions ==
    /\ pc = "check_options"
    /\ IF args.sort_fun \notin SortFuns THEN Fail("ValueError")
       ELSE IF ~(args.nvars_bound.t = "int" /\ args.nvars_bound.v > 0)
       THEN Fail("ValueError")
       ELSE IF args.max_der_order.t # "none" /\ ~IsNatArg(args.max_der_order)
       THEN Fail("ValueError")
       ELSE pc' = "dispatch" /\ UNCHANGED result
    /\ UNCHANGED <<args, poly_syst, stack, ret, nn_vars, nodes, started, nverify, inp, out>>

Frame(new_vars) == [new_vars |-> new_vars, state |-> "new", cands |-> << >>, nodes |-> 0]

\* quadratize, the choice of the search algorithm
Dispatch ==
    /\ pc = "dispatch"
    /\ IF args.search_alg = "inn"
       THEN /\ started' = "inn"
            /\ pc' = "inn"
            /\ UNCHANGED <<stack, result>>
       ELSE IF args.search_alg = "bnb"
       THEN /\ started' = "bnb"
            /\ stack' = <<Frame(<< >>)>>
            /\ pc' = "bnb"
            /\ UNCHANGED result
       ELSE Fail("ValueError") /\ UNCHANGED <<started, stack>>
    /\ UNCHANGED <<args, poly_syst, ret, nn_vars, nodes, nverify, inp, out>>

(***************************************************************************)
(* search_quad.bnb(new_vars, nvars_bound, poly_syst, sort_fun,             *)
(* max_der_order)                                                          *)
(***************************************************************************)
Top == stack[Len(stack)]
Pop == SubSeq(stack, 1, Len(stack) - 1)
\* the variant that counts the call itself only
Returned_counts_itself(found, quad, n) == [set |-> TRUE, found |-> found, quad |-> quad, nodes |-> 1]

Returned(found, quad, n) == [set |-> TRUE, found |-> found, quad |-> quad, nodes |-> n]

\* the variant that filters nothing
pruning_rule_ord_keeps_all(cands, max_der_order, der_order) == cands

\* the candidates whose derivative order does not exceed max_der_order
pruning_rule_ord(cands, max_der_order, der_order) ==
    SelectSeq(cands, LAMBDA c : CandOrder(c, der_order) <= max_der_order)

\* the variant that keeps the first candidate of the ordering only
BnbCandidates_first_only(S) ==
    LET prop == prop_new_vars(S, args.sort_fun)
        kept == IF args.max_der_order.t = "none" THEN prop
                ELSE pruning_rule_ord(prop, args.max_der_order.v, S.max_order + S.order)
    IN  IF kept = << >> THEN kept ELSE <<kept[1]>>

BnbCandidates(S) ==
    LET prop == prop_new_vars(S, args.sort_fun)
    IN  IF args.max_der_order.t = "none" THEN prop
        ELSE pruning_rule_ord(prop, args.max_der_order.v, S.max_order + S.order)

\* a call of bnb up to its loop: verify the list; success if it is
\* quadratic, not found if the bound is reached, else propose candidates
BnbVisit ==
    /\ pc = "bnb" /\ stack # << >> /\ Top.state = "new"
    /\ LET S0 == set_new_vars(poly_syst, Top.new_vars)
           ok == TryResult(S0)[1]
           S1 == try_make_quadratic(S0)
       IN  /\ poly_syst' = S1
           /\ nverify' = nverify + 1
           /\ IF ok
              THEN stack' = Pop /\ ret' = Returned(TRUE, Top.new_vars, 1)
              ELSE IF Len(Top.new_vars) >= args.nvars_bound.v
              THEN stack' = Pop /\ ret' = Returned(FALSE, << >>, 1)
              ELSE /\ stack' = [stack EXCEPT ![Len(stack)] =
                                  [@ EXCEPT !.state = "loop",
                                            !.cands = BnbCandidates(S1),
                                            !.nodes = 1]]
                   /\ UNCHANGED ret
    /\ UNCHANGED <<args, pc, nn_vars, nodes, result, started, inp, out>>

\* the loop of bnb: the recursive call for the next candidate, or the
\* return when none is left
BnbRecurse ==
    /\ pc = "bnb" /\ stack # << >> /\ Top.state = "loop" /\ ~ret.set
    /\ IF Top.cands = << >>
       THEN stack' = Pop /\ ret' = Returned(FALSE, << >>, Top.nodes)
       ELSE /\ stack' = [stack EXCEPT ![Len(stack)] = [@ EXCEPT !.cands = Tail(@)]]
                        \o <<Frame(Top.new_vars \o Head(Top.cands))>>
            /\ UNCHANGED ret
    /\ UNCHANGED <<args, pc, poly_syst, nn_vars, nodes, result, started, nverify, inp, out>>

\* the variant that goes on with the siblings after a success
BnbReturn_tries_siblings ==
    /\ pc = "bnb" /\ stack # << >> /\ Top.state = "loop" /\ ret.set
    /\ IF ret.found /\ Top.cands = << >>
       THEN stack' = Pop /\ ret' = Returned(TRUE, ret.quad, Top.nodes + ret.nodes)
       ELSE /\ stack' = [stack EXCEPT ![Len(stack)] =
                           [@ EXCEPT !.nodes = @ + ret.nodes]]
            /\ ret' = NoRet
    /\ UNCHANGED <<args, pc, poly_syst, nn_vars, nodes, result, started, nverify, inp, out>>

\* the loop of bnb after a recursive call returned: count its nodes, and
\* return its quadratization if it found one
BnbReturn ==
    /\ pc = "bnb" /\ stack # << >> /\ Top.state = "loop" /\ ret.set
    /\ IF ret.found
       THEN stack' = Pop /\ ret' = Returned(TRUE, ret.quad, Top.nodes + ret.nodes)
       ELSE /\ stack' = [stack EXCEPT ![Len(stack)] =
                           [@ EXCEPT !.nodes = @ + ret.nodes]]
            /\ ret' = NoRet
    /\ UNCHANGED <<args, pc, poly_syst, nn_vars, nodes, result, started, nverify, inp, out>>

(***************************************************************************)
(* search_quad.nearest_neighbor(poly_syst, sort_fun, new_vars)             *)
(***************************************************************************)
\* the variant that reports the list as found once it holds a variable
NNStep_reports_unverified ==
    /\ pc = "inn" /\ ~ret.set /\ Len(nn_vars) <= MaxNNVars
    /\ LET S0 == set_new_vars(poly_syst, nn_vars)
           S1 == try_make_quadratic(S0)
           cands == prop_new_vars(S1, args.sort_fun)
       IN  /\ poly_syst' = S1
           /\ nverify' = nverify + 1
           /\ nodes' = nodes + 1
           /\ IF TryResult(S0)[1] \/ Len(nn_vars) >= 1
              THEN ret' = Returned(TRUE, nn_vars, nodes + 1) /\ UNCHANGED nn_vars
              ELSE IF cands = << >>
              THEN ret' = Returned(FALSE, << >>, nodes + 1) /\ UNCHANGED nn_vars
              ELSE nn_vars' = nn_vars \o cands[1] /\ UNCHANGED ret
    /\ UNCHANGED <<args, pc, stack, result, started, inp, out>>

\* one round of the loop: verify; on failure commit to the first candidate
NNStep ==
    /\ pc = "inn" /\ ~ret.set /\ Len(nn_vars) <= MaxNNVars
    /\ LET S0 == set_new_vars(poly_syst, nn_vars)
           ok == TryResult(S0)[1]
           S1 == try_make_quadratic(S0)
           cands == prop_new_vars(S1, args.sort_fun)
       IN  /\ poly_syst' = S1
           /\ nverify' = nverify + 1
           /\ nodes' = nodes + 1
           /\ IF ok THEN ret' = Returned(TRUE, nn_vars, nodes + 1) /\ UNCHANGED nn_vars
              ELSE IF cands = << >>
              THEN ret' = Returned(FALSE, << >>, nodes + 1) /\ UNCHANGED nn_vars
              ELSE nn_vars' = nn_vars \o cands[1] /\ UNCHANGED ret
    /\ UNCHANGED <<args, pc, stack, result, started, inp, out>>

(***************************************************************************)
(* quadratize after the search, and print_quad                             *)
(***************************************************************************)
\* the variant that raises when the search found nothing
NotFoundRaises(show_nodes, n) == Raise("ValueError")

\* what quadratize returns when the search found nothing: [] or ([], nodes)
NotFoundResult(show_nodes, n) ==
    [kind |-> "notfound", exc |-> "", with_nodes |-> show_nodes,
     nodes |-> IF show_nodes THEN n ELSE 0]

\* what quadratize returns after a search that found a quadratization:
\* poly_syst or (poly_syst, nodes)
FoundResult(show_nodes, n) ==
    [kind |-> "system", exc |-> "", with_nodes |-> show_nodes,
     nodes |-> IF show_nodes THEN n ELSE 0]

PrintingStyles == {"pprint", "latex"}

Finish ==
    /\ pc \in {"bnb", "inn"} /\ ret.set /\ stack = << >>
    /\ nodes' = ret.nodes
    /\ pc' = "done"
    /\ IF ~ret.found
       THEN /\ result' = NotFoundResult(args.show_nodes, ret.nodes)
            /\ UNCHANGED <<poly_syst, nverify>>
       ELSE LET S0 == set_new_vars(poly_syst, ret.quad)
                S1 == try_make_quadratic(S0)
                S2 == set_quad_sys(S1, TryResult(S0)[2])
            IN  /\ poly_syst' = S2
                /\ nverify' = nverify + 1
                /\ IF args.printing # "" /\ args.printing \notin PrintingStyles
                   THEN result' = Raise("ValueError")
                   ELSE result' = FoundResult(args.show_nodes, ret.nodes)
    /\ UNCHANGED <<args, stack, ret, nn_vars, started, inp, out>>

Next ==
    \/ CheckFuncEq
    \/ CheckDiffOrd
    \/ Construct
    \/ CheckOptions
    \/ Dispatch
    \/ BnbVisit
    \/ BnbRecurse
    \/ BnbReturn
    \/ NNStep
    \/ Finish

Spec == Init /\ [][Next]_vars

(***************************************************************************)
(* Properties of quadratize                                                *)
(***************************************************************************)
Done == pc = "done"
ReturnedSystem == Done /\ result.kind = "system"
SearchFailed == Done /\ ret.set /\ ~ret.found

\* every element of the variable list V is a single term, the case
\* is_quadratization matches by exponent vectors
VIsMonomial ==
    poly_syst # NoSys =>
        \A k \in 1..Len(VSet(poly_syst)) : IsTerm(VSet(poly_syst)[k][2])

\* C1: whenever quadratize returns a system object, check_quadratization
\* called with the same equations, the polynomial auxiliary variables of the
\* object and the same diff_ord returns True, with the quadratic system the
\* object holds.
C1_ReturnedIsAccepted ==
    ReturnedSystem =>
        check_quadratization(args.func_eq.sys, poly_syst.new_vars, args.diff_ord.v)
            = <<TRUE, poly_syst.quad_sys>>

C1_Witness ==
    /\ ReturnedSystem
    /\ Len(poly_syst.new_vars) >= 2
    /\ check_quadratization(args.func_eq.sys, poly_syst.new_vars, args.diff_ord.v)[1]

\* C2: whenever quadratize returns a system object (a variable list that
\* check_quadratization accepts), every equation of the quadratic system,
\* with the definitions of the variables substituted back, equals the true
\* time derivative of the expression it rewrites.
C2_VerifierIsSound ==
    ReturnedSystem =>
        \A i \in 1..Len(poly_syst.quad_sys) :
            Embed(SubstBack(VSet(poly_syst), poly_syst.quad_sys[i][2]), poly_syst)
                = RefDerivT(poly_syst)[i]

\* C3: the quadratic system of a successful verification lists first the
\* equations w_i_t of the auxiliary variables in their order, then the
\* equations q_i_t of the reciprocal variables, then the original equations;
\* entry i rewrites the i-th expression of that list, and the length is the
\* sum of the three counts.
C3_QuadSysOrder ==
    ReturnedSystem =>
        LET S == poly_syst
            Q == S.quad_sys
            V == VSet(S)
            nw == Len(S.new_vars)
            nq == Len(S.frac_vars)
        IN  /\ Len(Q) = nw + nq + NFun(S.sys)
            /\ \A i \in 1..nw :
                 /\ Q[i][1] = <<"w", i - 1, "t">>
                 /\ SubstBack(V, Q[i][2]) = NewVarsT(S)[i][2]
            /\ \A i \in 1..nq :
                 /\ Q[nw + i][1] = <<"q", i - 1, "t">>
                 /\ SubstBack(V, Q[nw + i][2]) = S.frac_der_t[i][2]
            /\ \A k \in 1..NFun(S.sys) :
                 /\ Q[nw + nq + k][1] = S.pde_eq[k][1]
                 /\ SubstBack(V, Q[nw + nq + k][2]) = S.pde_eq[k][2]

C3_Witness ==
    /\ ReturnedSystem
    /\ Len(poly_syst.new_vars) >= 1
    /\ Len(poly_syst.frac_vars) >= 1
    /\ Len(poly_syst.quad_sys) = Len(poly_syst.new_vars) + Len(poly_syst.frac_vars) + 1

\* C4: a quadratization returned by bnb has at most nvars_bound polynomial
\* auxiliary variables.
C4_BnbWithinBound ==
    (ReturnedSystem /\ args.search_alg = "bnb") =>
        Len(poly_syst.new_vars) <= args.nvars_bound.v

\* C5: when the search finds no quadratization, quadratize raises nothing
\* and returns the empty list, or with show_nodes the pair of the empty list
\* and a positive node count; the value is not a system object.
C5_NotFoundIsEmptyList ==
    SearchFailed =>
        /\ result.kind = "notfound"
        /\ result.with_nodes = args.show_nodes
        /\ args.show_nodes => result.nodes = ret.nodes /\ result.nodes > 0
        /\ result # FoundResult(args.show_nodes, ret.nodes)

C5_Witness ==
    /\ SearchFailed
    /\ args.show_nodes
    /\ result.kind = "notfound"
    /\ result.nodes > 1

AllTuples ==
    \A i \in 1..Len(args.func_eq.shapes) : args.func_eq.shapes[i] = "tuple"

InvalidArgument ==
    \/ args.func_eq.shapes = << >>
    \/ args.sort_fun \notin SortFuns
    \/ args.search_alg \notin {"bnb", "inn"}
    \/ ~(args.nvars_bound.t = "int" /\ args.nvars_bound.v > 0)
    \/ args.diff_ord.t # "none" /\ ~IsNatArg(args.diff_ord)
    \/ args.max_der_order.t # "none" /\ ~IsNatArg(args.max_der_order)

RaisedValueErrorUnsearched ==
    /\ started = "none"
    /\ nverify = 0
    /\ Done => result = Raise("ValueError")

\* C6: for an empty equation list, an unknown sort_fun, an unknown
\* search_alg, an nvars_bound that is not a positive integer, a diff_ord or
\* a max_der_order that is negative or not an integer (the elements of the
\* list being tuples), quadratize raises ValueError and starts neither bnb
\* nor nearest_neighbor.
C6_InvalidArgumentRejected ==
    (InvalidArgument /\ AllTuples) => RaisedValueErrorUnsearched

\* C7: an equation list with an element that is not a tuple, at whatever
\* position, is rejected with ValueError and no search is started (the other
\* arguments being valid).
C7_MalformedElementRejected ==
    (~AllTuples /\ ~InvalidArgument) => RaisedValueErrorUnsearched

\* C8: a printing style other than the known ones is rejected with
\* ValueError before any search work (the other arguments being valid and
\* the system object constructed).
C8_UnknownPrintingRejected ==
    (/\ args.printing # "" /\ args.printing \notin PrintingStyles
     /\ AllTuples /\ ~InvalidArgument
     /\ poly_syst # NoSys)
        => RaisedValueErrorUnsearched

\* C9: for a system without spatial derivatives and diff_ord = 0 the system
\* object is constructed without error, and bnb returns a quadratization.
C9_ZeroOrderConstructs ==
    (/\ Done
     /\ ~InvalidArgument /\ AllTuples
     /\ args.printing \in PrintingStyles \cup {""}
     /\ get_order(args.func_eq.sys) = 0
     /\ args.diff_ord = IntArg(0))
        => /\ result.kind # "raise"
           /\ args.search_alg = "bnb" => result.kind = "system"

\* C10: a quadratization returned by the search algorithm inn has at most
\* nvars_bound polynomial auxiliary variables.
C10_InnWithinBound ==
    (ReturnedSystem /\ args.search_alg = "inn") =>
        Len(poly_syst.new_vars) <= args.nvars_bound.v

WithinOrder(new_vars, S, bound) ==
    \A i \in 1..Len(new_vars) :
        get_diff_order(new_vars[i], S.max_order + S.order) <= bound

\* C11: when max_der_order is given, every variable list bnb visits, and so
\* every quadratization it returns, holds only polynomial auxiliary variables
\* whose spatial derivative order is at most max_der_order.
C11_WithinMaxDerOrder ==
    (started = "bnb" /\ args.max_der_order.t = "int") =>
        /\ \A k \in 1..Len(stack) :
              WithinOrder(stack[k].new_vars, poly_syst, args.max_der_order.v)
        /\ ReturnedSystem =>
              WithinOrder(poly_syst.new_vars, poly_syst, args.max_der_order.v)

C11_Witness ==
    /\ ReturnedSystem
    /\ args.search_alg = "bnb"
    /\ args.max_der_order = IntArg(0)
    /\ poly_syst.max_order >= 1
    /\ poly_syst.order >= 1
    /\ Len(poly_syst.new_vars) >= 1

\* the highest derivative order written in the right-hand sides of a system
RhsOrder ==
    [ux |-> 1, uxx |-> 2, u3 |-> 0, u2ux |-> 1, ux3 |-> 1, u3v4 |-> 0, q2 |-> 0,
     inv5 |-> 0, inv12 |-> 0, uv |-> 0]

\* C12: the step of quadratize that settles diff_ord replaces None by 3
\* times the highest spatial-derivative order of the right-hand sides and
\* leaves a given non-negative integer as it is, and the system object is
\* constructed with that differentiation order.
C12_DiffOrdUsed ==
    [][ /\ (pc = "check_diff_ord" /\ pc' = "construct") =>
             args'.diff_ord = IF args.diff_ord.t = "none"
                              THEN IntArg(3 * RhsOrder[args.func_eq.sys])
                              ELSE args.diff_ord
        /\ (pc = "construct" /\ pc' = "check_options") =>
             /\ poly_syst'.order = args.diff_ord.v
             /\ poly_syst'.nring =
                  (RhsOrder[args.func_eq.sys] + args.diff_ord.v + 1)
                  * (NFun(args.func_eq.sys) + NRel(args.func_eq.sys)) ]_vars

\* a system of order 1 called without diff_ord: constructed with order 3
C12_Witness ==
    /\ poly_syst # NoSys
    /\ poly_syst.max_order = 1
    /\ poly_syst.order = 3
    /\ args.diff_ord = IntArg(3)

(***************************************************************************)
(* PDESys(func_eq, n_diff, vars_indep, new_vars) called on its own         *)
(***************************************************************************)
mainvars == <<args, pc, poly_syst, stack, ret, nn_vars, nodes, result, started, nverify>>

\* no call of quadratize is under way
MainIdle ==
    /\ args = NoCall
    /\ pc = "idle"
    /\ poly_syst = NoSys
    /\ stack = << >>
    /\ ret = NoRet
    /\ nn_vars = << >>
    /\ nodes = 0
    /\ result = Running
    /\ started = "none"
    /\ nverify = 0

MaxNDiff == 2

\* preset new variables: none, u^2, or u^2 and u^3
PresetVars(sys, n_diff, k) ==
    LET n == RingSize(sys, get_order(sys) + n_diff)
    IN  [i \in 1..k |-> PTerm([j \in 1..n |-> IF j = 1 THEN i + 1 ELSE 0], 1)]

InitBuild ==
    /\ MainIdle
    /\ inp \in [call : {"PDESys"}, sys : SysNames, n_diff : 0..MaxNDiff, nvars : 0..2]
    /\ out = NoCall

BuildPDESys ==
    /\ inp.call = "PDESys" /\ out = NoCall
    /\ out' = IF GetDicsRaises(inp.sys, get_order(inp.sys) + inp.n_diff)
              THEN Raise("UnboundLocalError")
              ELSE PDESys(inp.sys, inp.n_diff, PresetVars(inp.sys, inp.n_diff, inp.nvars))
    /\ UNCHANGED <<inp, mainvars>>

NextBuild == BuildPDESys

SpecBuild == InitBuild /\ [][NextBuild]_vars

\* the right-hand sides as the caller writes them, numerator and denominator
One == {T(1, {})}

Rhs ==
    [ ux    |-> << [num |-> {T(1, {<<1, 1, 1>>})}, den |-> One] >>,
      uxx   |-> << [num |-> {T(1, {<<1, 2, 1>>})}, den |-> One] >>,
      u3    |-> << [num |-> {T(1, {<<1, 0, 3>>})}, den |-> One] >>,
      u2ux  |-> << [num |-> {T(1, {<<1, 0, 2>>, <<1, 1, 1>>})}, den |-> One] >>,
      ux3   |-> << [num |-> {T(1, {<<1, 1, 3>>})}, den |-> One] >>,
      u3v4  |-> << [num |-> {T(1, {<<1, 0, 3>>})}, den |-> One],
                   [num |-> {T(1, {<<2, 0, 4>>})}, den |-> One] >>,
      q2    |-> << [num |-> {T(1, {<<1, 0, 2>>})}, den |-> One] >>,
      inv5  |-> << [num |-> One, den |-> {T(5, {<<1, 0, 1>>}), T(5, {})}] >>,
      inv12 |-> << [num |-> One,
                    den |-> {T(1, {<<1, 0, 2>>}), T(3, {<<1, 0, 1>>}), T(2, {})}] >>,
      uv    |-> << [num |-> One,
                    den |-> {T(1, {<<1, 0, 1>>, <<2, 0, 1>>}), T(1, {<<1, 0, 1>>}),
                             T(1, {<<2, 0, 1>>}), T(1, {})}],
                   [num |-> One, den |-> {T(1, {<<1, 0, 1>>})}] >> ]

\* the distinct denominators of the first k right-hand sides, in the order
\* of their first occurrence
RECURSIVE DistinctDens(_, _)
DistinctDens(sys, k) ==
    IF k = 0 THEN << >>
    ELSE LET before == DistinctDens(sys, k - 1)
             d == Rhs[sys][k].den
         IN  IF d = One \/ InSeq(d, before) THEN before ELSE Append(before, d)

DenIndex(sys, d) ==
    CHOOSE i \in 1..Len(DistinctDens(sys, NFun(sys))) :
        DistinctDens(sys, NFun(sys))[i] = d

NoDuplicates(seq) == \A i, j \in 1..Len(seq) : seq[i] = seq[j] => i = j

\* C14: no candidate proposed at a node of bnb holds a monomial that is
\* already in the variable list of the node or holds a monomial twice, and no
\* variable list of bnb or nearest_neighbor, nor the list of the system
\* object, holds the same monomial twice.
C14_NoDuplicateVariables ==
    /\ \A k \in 1..Len(stack) :
         /\ NoDuplicates(stack[k].new_vars)
         /\ \A c \in 1..Len(stack[k].cands) :
              /\ NoDuplicates(stack[k].cands[c])
              /\ \A v \in 1..Len(stack[k].cands[c]) :
                   ~InSeq(stack[k].cands[c][v], stack[k].new_vars)
    /\ NoDuplicates(nn_vars)
    /\ poly_syst # NoSys => NoDuplicates(poly_syst.new_vars)

\* a node with variables already chosen proposes further candidates
C14_Witness ==
    /\ stack # << >>
    /\ Len(Top.new_vars) >= 1
    /\ Len(Top.cands) >= 2

(***************************************************************************)
(* utils.diff_dict(pol, dic, order) called on its own, in the ring         *)
(* u, u_x1, u_x2, w_0, w_0x1 of the tests                                  *)
(***************************************************************************)
NTest == 5
MaxDiffOrder == 2

\* the monomials of degree at most 2 and the polynomials of the tests
TestMonoms == {m \in [1..NTest -> 0..2] : MDeg(m) <= 2}

TestPolys ==
    {PTerm(m, 1) : m \in TestMonoms}
    \cup {PAdd(Gen(NTest, 4), Gen(NTest, 1)),
          PTerm(<<1, 1, 0, 1, 0>>, 1),
          PAdd(PTerm(<<1, 0, 0, 0, 1>>, 2), PTerm(<<0, 2, 0, 0, 0>>, 3))}

\* dic = {u: u_x1, u_x1: u_x2, w_0: w_0x1}, a map with polynomial values,
\* and the empty map
TestDic == (1 :> Gen(NTest, 2)) @@ (2 :> Gen(NTest, 3)) @@ (4 :> Gen(NTest, 5))

TestDics ==
    {TestDic,
     (1 :> PTerm(<<3, 0, 0, 0, 0>>, 1)) @@ (4 :> PTerm(<<1, 0, 0, 1, 0>>, 2)),
     [i \in {} |-> PZero]}

InitDiff ==
    /\ MainIdle
    /\ inp \in [call : {"diff_dict"}, pol : TestPolys, dic : TestDics]
    /\ out = NoCall

CallDiffDict ==
    /\ inp.call = "diff_dict" /\ out = NoCall
    /\ \E order \in 0..MaxDiffOrder :
         out' = [order |-> order, val |-> diff_dict(inp.pol, inp.dic, order)]
    /\ UNCHANGED <<inp, mainvars>>

NextDiff == CallDiffDict

SpecDiff == InitDiff /\ [][NextDiff]_vars

DiffReturned == inp.call = "diff_dict" /\ out # NoCall

ProductRule(e, m) ==
    LET ms == itermonoms(e)
    IN  PSum([k \in 1..Len(ms) |->
                PSum([v \in 1..Len(ms[k]) |->
                        IF v \in DOMAIN m /\ ms[k][v] > 0
                        THEN PScale(e[ms[k]] * ms[k][v], PMul(PTerm(MDec(ms[k], v), 1), m[v]))
                        ELSE PZero])])

\* C16: diff_dict(e, m) is the sum over the monomials of e and over their
\* variables v of exponent * lowered monomial * m[v], a variable absent
\* from m giving 0; with the map of the tests u*u_x1 gives u_x1^2 + u*u_x2
\* and w_0*u_x1*u gives w_0x1*u*u_x1 + w_0*u_x2*u + w_0*u_x1^2.
C16_ProductRule ==
    (DiffReturned /\ out.order = 1) =>
        /\ out.val = ProductRule(inp.pol, inp.dic)
        /\ (inp.dic = TestDic /\ inp.pol = PTerm(<<1, 1, 0, 0, 0>>, 1)) =>
             out.val = PAdd(PTerm(<<0, 2, 0, 0, 0>>, 1), PTerm(<<1, 0, 1, 0, 0>>, 1))
        /\ (inp.dic = TestDic /\ inp.pol = PTerm(<<1, 1, 0, 1, 0>>, 1)) =>
             out.val = PAdd(PTerm(<<1, 1, 0, 0, 1>>, 1),
                            PAdd(PTerm(<<1, 0, 1, 1, 0>>, 1), PTerm(<<0, 2, 0, 1, 0>>, 1)))
        /\ (inp.dic = TestDic /\ inp.pol = Gen(NTest, 3)) => out.val = PZero

\* the third polynomial of the tests differentiated with their map
C16_Witness ==
    /\ DiffReturned
    /\ out.order = 1
    /\ inp.dic = TestDic
    /\ inp.pol = PTerm(<<1, 1, 0, 1, 0>>, 1)
    /\ out.val = PAdd(PTerm(<<1, 1, 0, 0, 1>>, 1),
                      PAdd(PTerm(<<1, 0, 1, 1, 0>>, 1), PTerm(<<0, 2, 0, 1, 0>>, 1)))

\* C17: when nearest_neighbor returns a variable list, that list is the one
\* it verified last and the verification returned True; when it returns
\* None, the last list was not quadratic and had no candidates, and
\* quadratize returns the not-found result.
C17_NoFalseSuccess ==
    (started = "inn" /\ ret.set) =>
        /\ ret.found =>
             /\ ret.quad = nn_vars
             /\ poly_syst.new_vars = ret.quad
             /\ TryResult(poly_syst)[1]
             /\ Done => result.kind \in {"system", "raise"}
        /\ ~ret.found =>
             /\ poly_syst.new_vars = nn_vars
             /\ ~TryResult(poly_syst)[1]
             /\ prop_new_vars(poly_syst, args.sort_fun) = << >>
             /\ Done => result = NotFoundResult(args.show_nodes, ret.nodes)

\* nearest_neighbor returned a list it had to extend before it verified
C17_Witness ==
    /\ started = "inn"
    /\ ret.set /\ ret.found
    /\ Len(ret.quad) >= 1
    /\ ret.nodes >= 2
    /\ TryResult(poly_syst)[1]

(***************************************************************************)
(* cli.service.run_quadratization after its call of quadratize, and        *)
(* cli.main.run                                                            *)
(***************************************************************************)
MaxNodes == 25

\* what quadratize returned to the service
QuadratizeReturned(found, show_nodes, n) ==
    IF found THEN FoundResult(show_nodes, n) ELSE NotFoundResult(show_nodes, n)

\* result == []: the empty list equals neither a tuple nor a PDESys
EqualsEmptyList(r) == r.kind = "notfound" /\ ~r.with_nodes

\* poly_syst, traversed = (result, None), unpacked when show_nodes is set
\* and result is a tuple
ServicePolySyst(r, show_nodes) ==
    IF show_nodes /\ r.with_nodes
    THEN IF r.kind = "system" THEN "PDESys" ELSE "list"
    ELSE IF r.with_nodes THEN "tuple"
    ELSE IF r.kind = "system" THEN "PDESys" ELSE "list"

ServiceOutcome(r, show_nodes) ==
    IF EqualsEmptyList(r)
    THEN [stage |-> "service", kind |-> "raise", exc |-> "QuadratizationError",
          got_aux_vars |-> FALSE, traversed |-> 0]
    ELSE IF ServicePolySyst(r, show_nodes) # "PDESys"
    THEN [stage |-> "service", kind |-> "raise", exc |-> "AttributeError",
          got_aux_vars |-> TRUE, traversed |-> 0]
    ELSE [stage |-> "service", kind |-> "result", exc |-> "",
          got_aux_vars |-> TRUE,
          traversed |-> IF show_nodes /\ r.with_nodes THEN r.nodes ELSE 0]

InitService ==
    /\ MainIdle
    /\ inp \in [call : {"run_quadratization"}, found : BOOLEAN,
                show_nodes : BOOLEAN, nodes : 1..MaxNodes]
    /\ out = NoCall

RunQuadratization ==
    /\ inp.call = "run_quadratization" /\ out = NoCall
    /\ out' = ServiceOutcome(QuadratizeReturned(inp.found, inp.show_nodes, inp.nodes),
                             inp.show_nodes)
    /\ UNCHANGED <<inp, mainvars>>

\* run: ParseError and QuadratizationError become exit code 1, any other
\* exception is not caught
Run ==
    /\ inp.call = "run_quadratization" /\ out # NoCall /\ out.stage = "service"
    /\ out' = [out EXCEPT !.stage =
                 IF out.kind = "result" THEN "exit 0"
                 ELSE IF out.exc \in {"ParseError", "QuadratizationError"} THEN "exit 1"
                 ELSE "uncaught"]
    /\ UNCHANGED <<inp, mainvars>>

NextService == RunQuadratization \/ Run

SpecService == InitService /\ [][NextService]_vars

\* C18: whenever quadratize found no quadratization, run_quadratization
\* raises QuadratizationError without calling get_aux_vars, and run ends with
\* exit code 1, with show_nodes False and with show_nodes True.
C18_NotFoundIsQuadratizationError ==
    (inp.call = "run_quadratization" /\ ~inp.found /\ out # NoCall) =>
        /\ out.kind = "raise"
        /\ out.exc = "QuadratizationError"
        /\ ~out.got_aux_vars
        /\ out.stage \in {"service", "exit 1"}

(***************************************************************************)
(* cli.parsing.parse_user_equations, the checks of the left-hand sides,    *)
(* with the independent variables (t, x)                                   *)
(***************************************************************************)
MaxEqs == 2

\* a left-hand side after _coerce_derivatives and _to_derivative: whether it
\* is a Derivative, its differentiation variables, what is differentiated,
\* and the arguments that is applied to
LhsForms ==
    {[derivative |-> FALSE, variables |-> << >>, base |-> "declared", fargs |-> <<"t", "x">>]}
    \cup [derivative : {TRUE},
          variables : {<<"t">>, <<"x">>, <<"t", "t">>, <<"t", "x">>, <<"x", "t">>},
          base : {"declared", "undeclared", "expression"},
          fargs : {<<"t", "x">>, <<"x", "t">>}]

\* the checks of one left-hand side: "" when it passes them all
LhsError(lhs) ==
    IF ~lhs.derivative THEN "ParseError"
    ELSE IF lhs.variables = << >> \/ lhs.variables[1] # "t" THEN "ParseError"
    ELSE IF lhs.base = "expression" THEN "ParseError"
    ELSE IF lhs.base # "declared" THEN "ParseError"
    ELSE IF Len(lhs.fargs) # 2 \/ lhs.fargs # <<"t", "x">> THEN "ParseError"
    ELSE ""

InitParse ==
    /\ MainIdle
    /\ inp \in [call : {"parse_user_equations"},
                eqs : UNION {SeqsOf(LhsForms, n) : n \in 1..MaxEqs}]
    /\ out = NoCall

ParseUserEquations ==
    /\ inp.call = "parse_user_equations" /\ out = NoCall
    /\ out' = IF \E i \in 1..Len(inp.eqs) : LhsError(inp.eqs[i]) # ""
              THEN [kind |-> "raise", exc |-> "ParseError", func_eq |-> << >>]
              ELSE [kind |-> "return", exc |-> "",
                    func_eq |-> [i \in 1..Len(inp.eqs) |-> inp.eqs[i].base]]
    /\ UNCHANGED <<inp, mainvars>>

NextParse == ParseUserEquations

SpecParse == InitParse /\ [][NextParse]_vars

\* the derivative of first order, in the first independent variable only, of
\* a declared function applied to (first_indep, sec_indep)
FirstOrderTimeDerivative(lhs) ==
    /\ lhs.derivative
    /\ lhs.variables = <<"t">>
    /\ lhs.base = "declared"
    /\ lhs.fargs = <<"t", "x">>

\* C19: parse_user_equations returns an equation list only if every
\* left-hand side is the first-order derivative in the first independent
\* variable of a declared function applied to (first_indep, sec_indep); with
\* any other left-hand side it raises ParseError.
C19_LhsIsTimeDerivative ==
    (inp.call = "parse_user_equations" /\ out # NoCall) =>
        /\ out.kind = "return" =>
             \A i \in 1..Len(inp.eqs) : FirstOrderTimeDerivative(inp.eqs[i])
        /\ (\E i \in 1..Len(inp.eqs) : ~FirstOrderTimeDerivative(inp.eqs[i])) =>
             out = [kind |-> "raise", exc |-> "ParseError", func_eq |-> << >>]

\* the monomials of degree > 2 of all residual polynomials, in the iteration
\* order of NS_list
AllResidualMonoms(S) ==
    Flatten([k \in 1..Len(S.NS_list) |->
                SelectSeq(itermonoms(S.NS_list[k][2]), LAMBDA m : MDeg(m) > 2)])

\* the last verification of the search failed: prop_new_vars is called next
ProposalDue ==
    /\ pc \in {"bnb", "inn"}
    /\ poly_syst # NoSys
    /\ poly_syst.NS_list # << >>
    /\ ~TryResult(poly_syst)[1]

\* C20: the monomial prop_new_vars decomposes is one of minimum total degree
\* among the monomials of degree > 2 of all entries of NS_list, the first
\* such in the iteration order of NS_list.
C20_MinOverAllResiduals ==
    ProposalDue =>
        LET all == AllResidualMonoms(poly_syst)
            k == CHOOSE i \in 1..Len(all) :
                    /\ \A j \in 1..Len(all) : MDeg(all[i]) <= MDeg(all[j])
                    /\ \A j \in 1..(i - 1) : MDeg(all[j]) > MDeg(all[i])
        IN  MinMonom(poly_syst) = all[k]

\* a verification call has been made on the object
Verified == poly_syst # NoSys /\ nverify > 0

\* C21: after any call of try_make_quadratic, NS_list is the residue list of
\* that call for the current new_vars, and is empty when the call returned
\* True; it never holds the residues of an earlier call.
C21_NSListIsCurrent ==
    Verified =>
        poly_syst.NS_list =
            IF TryResult(poly_syst)[1] THEN << >> ELSE TryResult(poly_syst)[2]

\* the ring variables of the unknown functions: the function symbol and its
\* derivative chain, for every function of the system
FunctionVars(S) ==
    {Pos(S.max_order + S.order, g, k) :
        g \in 1..NFun(S.sys), k \in 0..(S.max_order + S.order)}

\* the polynomials of the extended variable set V
VPolys(S) == {VSet(S)[i][2] : i \in 1..Len(VSet(S))}

\* C22: the set V of try_make_quadratic contains the constant 1 and every
\* ring variable of every unknown function, whatever the function is called;
\* only the variables of the fraction decomposition are left out of the
\* ring-variable part, and the reciprocals q_i are added again.
C22_VHoldsFunctionVars ==
    Verified =>
        /\ PTerm(MOne(poly_syst.nring), 1) \in VPolys(poly_syst)
        /\ \A pos \in FunctionVars(poly_syst) :
              Gen(poly_syst.nring, pos) \in VPolys(poly_syst)
        /\ \A i \in 1..Len(poly_syst.frac_vars) :
              Gen(poly_syst.nring, poly_syst.frac_vars[i][1]) \in VPolys(poly_syst)

(***************************************************************************)
(* quadratize called with valid arguments, run to its end                  *)
(***************************************************************************)
ValidArgs ==
    {a \in ArgSpace :
        /\ a.search_alg \in {"bnb", "inn"}
        /\ a.func_eq.shapes # << >>
        /\ \A i \in 1..Len(a.func_eq.shapes) : a.func_eq.shapes[i] = "tuple"
        /\ a.diff_ord.t = "none" \/ IsNatArg(a.diff_ord)
        /\ a.sort_fun \in SortFuns
        /\ a.nvars_bound.t = "int" /\ a.nvars_bound.v > 0
        /\ a.max_der_order.t = "none" \/ IsNatArg(a.max_der_order)
        /\ a.printing \in {""} \cup PrintingStyles}

InitValid ==
    /\ args \in ValidArgs
    /\ pc = "check_list"
    /\ poly_syst = NoSys
    /\ stack = << >>
    /\ ret = NoRet
    /\ nn_vars = << >>
    /\ nodes = 0
    /\ result = Running
    /\ started = "none"
    /\ nverify = 0
    /\ inp = NoCall
    /\ out = NoCall

SpecValid == InitValid /\ [][Next]_vars

\* the same with search_alg='inn'
InitInn == InitValid /\ args.search_alg = "inn"

NextInn ==
    \/ CheckFuncEq
    \/ CheckDiffOrd
    \/ Construct
    \/ CheckOptions
    \/ Dispatch
    \/ NNStep
    \/ Finish

\* the checks of the arguments and the choice of the algorithm
ArgumentSteps == CheckFuncEq \/ CheckDiffOrd \/ CheckOptions \/ Dispatch

\* the construction of the PDESys, the loop of nearest_neighbor and the end
\* of quadratize
SearchSteps == Construct \/ NNStep \/ Finish

\* the enabling condition of SearchSteps: the guards of its three actions,
\* the loop of nearest_neighbor followed up to the horizon MaxNNVars
SearchStepPossible ==
    \/ pc = "construct"
    \/ pc = "inn" /\ ~ret.set /\ Len(nn_vars) <= MaxNNVars
    \/ pc = "inn" /\ ret.set /\ stack = << >>

\* quadratize is sequential code, a step that can be taken is taken: weak
\* fairness of every step.  For SearchSteps it is written out, with
\* SearchStepPossible for ENABLED <<SearchSteps>>_vars.
SpecInn ==
    /\ InitInn
    /\ [][NextInn]_vars
    /\ WF_vars(ArgumentSteps)
    /\ ([]<>(~SearchStepPossible) \/ []<><<SearchSteps>>_vars)

\* a call of bnb has just reported success to the call above it
ChildSucceeded == pc = "bnb" /\ stack # << >> /\ ret.set /\ ret.found

\* C23: bnb is depth-first and leftmost-first.  A new call is made only from
\* the innermost call, for the first candidate not yet tried, with that
\* candidate appended to the list; and once a call below has reported
\* success the caller returns that very list at once, whatever candidates
\* it has left.
C23_FirstSuccessReturned ==
    [][/\ ChildSucceeded =>
            /\ stack' = Pop
            /\ ret' = [ret EXCEPT !.nodes = Top.nodes + ret.nodes]
       /\ (pc = "bnb" /\ stack # << >> /\ Len(stack') > Len(stack)) =>
            /\ Len(stack') = Len(stack) + 1
            /\ ~ret.set
            /\ stack'[Len(stack')].new_vars = Top.new_vars \o Head(Top.cands)
            /\ stack'[Len(stack)].cands = Tail(Top.cands)
            /\ SubSeq(stack', 1, Len(stack) - 1) = Pop]_vars

\* a success is handed up while the caller still has candidates it never tried
C23_Witness == ChildSucceeded /\ Top.cands # << >>

\* the nodes counted so far by the calls of bnb that are under way
RECURSIVE StackNodes(_)
StackNodes(st) == IF st = << >> THEN 0 ELSE Head(st).nodes + StackNodes(Tail(st))

\* bnb has returned to quadratize
BnbFinished == pc = "bnb" /\ stack = << >> /\ ret.set

\* C24: bnb returns (None, [], nodes) when no branch within the bound
\* succeeds, and in every outcome nodes is the number of search states
\* visited, the root included: at least 1, and the sum of the counts of all
\* the subtrees visited.
C24_NodesCountVisits ==
    /\ pc = "bnb" =>
          nverify = StackNodes(stack) + (IF ret.set THEN ret.nodes ELSE 0)
    /\ (pc = "bnb" /\ ret.set) =>
          /\ ret.nodes >= 1
          /\ ~ret.found => ret.quad = << >>
    /\ BnbFinished => ret.nodes = nverify
    /\ (Done /\ started = "bnb" /\ result.kind \in {"system", "notfound"}) =>
          /\ nodes = ret.nodes
          /\ result.nodes = IF args.show_nodes THEN ret.nodes ELSE 0

\* a search that failed after visiting the root and nodes below it
C24_Witness == BnbFinished /\ ~ret.found /\ ret.nodes >= 3

VerifiedSys(S, new_vars) == try_make_quadratic(set_new_vars(S, new_vars))

\* the candidates of a node as a set: the filter of max_der_order applied
\* to the proposals, their order forgotten
CandidateSet(S, new_vars, max_der_order) ==
    LET prop == prop_new_vars(VerifiedSys(S, new_vars), "by_fun")
        kept == IF max_der_order.t = "none" THEN prop
                ELSE pruning_rule_ord(prop, max_der_order.v, S.max_order + S.order)
    IN  {kept[i] : i \in 1..Len(kept)}

\* some list of the search tree below new_vars, within the bound, is a
\* quadratization: a statement in which no ordering occurs
RECURSIVE TreeHasQuadratization(_, _, _, _)
TreeHasQuadratization(S, new_vars, nvars_bound, max_der_order) ==
    IF TryResult(set_new_vars(S, new_vars))[1] THEN TRUE
    ELSE IF Len(new_vars) >= nvars_bound THEN FALSE
    ELSE \E c \in CandidateSet(S, new_vars, max_der_order) :
            TreeHasQuadratization(S, new_vars \o c, nvars_bound, max_der_order)

\* C26: whether bnb ends in success or in not-found does not depend on the
\* ordering of the candidates: under by_fun, by_degree_order and
\* by_order_degree alike it succeeds exactly when the search tree of the
\* equations, diff_ord, nvars_bound and max_der_order holds a quadratization.
C26_OrderingKeepsOutcome ==
    BnbFinished =>
        (ret.found <=>
            TreeHasQuadratization(poly_syst, << >>, args.nvars_bound.v, args.max_der_order))

\* a search that succeeded under an ordering whose first choice at the root
\* is not the one of by_fun
C26_Witness ==
    /\ BnbFinished
    /\ ret.found
    /\ ret.quad # << >>
    /\ args.sort_fun # "by_fun"
    /\ prop_new_vars(VerifiedSys(poly_syst, << >>), args.sort_fun)[1]
          # prop_new_vars(VerifiedSys(poly_syst, << >>), "by_fun")[1]

\* what the constructor fixes: the ring, the equations, the derivative maps
\* and the fraction variables
FixedFields ==
    {"sys", "order", "max_order", "nring", "pde_eq", "dic_x", "dic_t",
     "frac_der_t", "frac_vars"}

\* C27: after the construction of a PDESys no call of set_new_vars,
\* try_make_quadratic, prop_new_vars, set_NS_list or set_quad_sys changes its
\* ring, pde_eq,
\* dic_x, dic_t, frac_der_t or its fraction variables; set_new_vars replaces
\* the list of auxiliary variables only, try_make_quadratic changes NS_list
\* at most.
C27_ConstructionIsFixed ==
    poly_syst # NoSys =>
        LET built == PDESys(poly_syst.sys, poly_syst.order, << >>)
            tried == try_make_quadratic(poly_syst)
            reset == set_new_vars(poly_syst, << >>)
            quad == set_quad_sys(poly_syst, << >>)
            listed == set_NS_list(poly_syst, << >>)
        IN  /\ \A f \in FixedFields : poly_syst[f] = built[f]
            /\ \A f \in DOMAIN poly_syst \ {"new_vars"} : reset[f] = poly_syst[f]
            /\ \A f \in DOMAIN poly_syst \ {"NS_list"} : tried[f] = poly_syst[f]
            /\ \A f \in DOMAIN poly_syst \ {"NS_list"} : listed[f] = poly_syst[f]
            /\ \A f \in DOMAIN poly_syst \ {"quad_sys"} : quad[f] = poly_syst[f]

\* a system with a fraction variable, in the middle of the search: the list
\* of auxiliary variables and NS_list have both been written
C27_Witness ==
    /\ Verified
    /\ poly_syst.frac_vars # << >>
    /\ poly_syst.new_vars # << >>
    /\ poly_syst.NS_list # << >>

\* the constructor has returned the object out
Built == inp.call = "PDESys" /\ "dic_t" \in DOMAIN out

\* C28: the derivative maps of get_dics agree with the chain rule: dic_x
\* maps name_xj to name_x(j+1) for j < max_order + order, dic_t[name] is the
\* right-hand side, dic_t[name_xi] = diff_dict(dic_t[name_x(i-1)], dic_x), and
\* every entry dic_t[name_xi] is the true i-th spatial derivative of the
\* right-hand side, no term missing.
C28_DicsFollowChainRule ==
    Built =>
        LET D == out.max_order + out.order
            R == RefOrder(out)
            funs == 1..NFun(out.sys)
        IN  /\ \A g \in funs, j \in 0..(D - 1) :
                  out.dic_x[Pos(D, g, j)] = Gen(out.nring, Pos(D, g, j + 1))
            /\ \A g \in funs : out.dic_t[Pos(D, g, 0)] = out.pde_eq[g][2]
            /\ \A g \in funs, i \in 1..(D - 1) :
                  out.dic_t[Pos(D, g, i)] = DiffOnce(out.dic_t[Pos(D, g, i - 1)], out.dic_x)
            /\ \A g \in funs, i \in 0..(D - 1) :
                  Embed(out.dic_t[Pos(D, g, i)], out) = RefDicT(out)[Pos(R, g, i)]

\* the last verification of the search returned False
VerificationFailed ==
    /\ pc \in {"bnb", "inn"}
    /\ Verified
    /\ ~TryResult(poly_syst)[1]

\* C29: whenever try_make_quadratic returns False, NS_list is not empty and
\* the residual prop_new_vars inspects has a monomial of total degree > 2, so
\* the monomial handed to get_decompositions is never the all-zero exponent
\* vector min_monom starts with.
C29_ResidualHasHighMonomial ==
    VerificationFailed =>
        /\ poly_syst.NS_list # << >>
        /\ PropMonoms(poly_syst) # << >>
        /\ MinMonom(poly_syst) # MOne(poly_syst.nring)

(***************************************************************************)
(* quadratize, the independent variables handed to PDESys: x_var is taken  *)
(* from the free symbols of the first unknown before a first_indep given   *)
(* as a string is made a symbol                                            *)
(***************************************************************************)
IndepNames == {"t", "x", "r", "s"}

\* first_indep: a symbol or a string, with its name
FirstIndeps == [kind : {"symbol", "str"}, name : IndepNames]

\* symbol != first_indep: two symbols differ when their names differ; a
\* symbol and a string are never equal
SymbolDiffers(symbol, first_indep) ==
    first_indep.kind = "str" \/ symbol # first_indep.name

\* the orders in which a set of symbols may be iterated
IterationOrders(S) ==
    {o \in [1..Cardinality(S) -> S] : \A i, j \in 1..Cardinality(S) : o[i] = o[j] => i = j}

\* [symbol for symbol in undef_fun[0].free_symbols if symbol != first_indep]
XVarList(order, first_indep) ==
    SelectSeq(order, LAMBDA symbol : SymbolDiffers(symbol, first_indep))

\* list.pop(): the last element
ListPop(l) == l[Len(l)]

InitIndep ==
    /\ MainIdle
    /\ inp \in {i \in [call : {"vars_indep"}, fun_args : IndepNames \X IndepNames,
                         first_indep : FirstIndeps] :
                    i.fun_args[1] # i.fun_args[2]}
    /\ out = NoCall

\* quadratize, lines 58-71, for the unknown u(fun_args): the pair
\* (first_indep, x_var) PDESys is constructed with
SelectIndepVars ==
    /\ inp.call = "vars_indep" /\ out = NoCall
    /\ \E order \in IterationOrders({inp.fun_args[1], inp.fun_args[2]}) :
          out' = [call |-> "PDESys",
                  first_indep |-> inp.first_indep.name,
                  x_var |-> ListPop(XVarList(order, inp.first_indep))]
    /\ UNCHANGED <<inp, mainvars>>

NextIndep == SelectIndepVars

SpecIndep == InitIndep /\ [][NextIndep]_vars

\* C30: first_indep given as the string 't' is treated as the symbol t: for
\* an unknown u(t, x) the second independent variable is x, and PDESys is
\* constructed with the same pair (t, x) as when the symbol is given.
C30_StringFirstIndep ==
    (/\ inp.call = "vars_indep"
     /\ out # NoCall
     /\ inp.first_indep.kind = "str"
     /\ inp.first_indep.name = inp.fun_args[1]) =>
        out = [call |-> "PDESys", first_indep |-> inp.fun_args[1], x_var |-> inp.fun_args[2]]
=============================================================================
